---- MODULE Spec2Model ----
(***************************************************************************)
(* A model of ThugLogging (src/src/Logging/ThugLogging.py): the registry   *)
(* of logging modules, the memoising method resolver, the event            *)
(* operations that broadcast to the resolved handlers, the redirect-chain  *)
(* walk of log_redirect and store_content.                                 *)
(*                                                                         *)
(* One action is one call of a public method, run to completion.  The only *)
(* method that is split is log_redirect: its `while final is None` loop is *)
(* one action per pass, because the loop need not end.                     *)
(*                                                                         *)
(* Python values: None is the string "None"; a formatted string            *)
(* ("[%s] %s" % (a, b)) is the tuple of its literal and substituted parts; *)
(* a bound method of a logging module is the pair <<module, name>>.        *)
(***************************************************************************)
EXTENDS Integers, Sequences, FiniteSets, TLC

(* ------------------------------- bounds -------------------------------- *)

\* operations explored in one session
MaxOps == 2
\* hops in a response's history
MaxHops == 2
\* length of a code snippet
MaxSnippetLen == 5
\* passes of log_redirect's while loop that are counted (the count saturates)
MaxPasses == 2

(* --------------------------- program constants ------------------------- *)

None == "None"

eval_min_length_logging == 4

\* the names resolve_method is asked for
EventNames ==
    { "set_url", "add_behavior_warn", "add_code_snippet", "log_file", "export",
      "log_event", "log_connection", "log_location", "log_exploit_event",
      "log_warning", "log_certificate", "log_virustotal", "log_honeyagent",
      "log_androguard", "log_peepdf" }

\* self.baseDir is set to None by __init__ and by nothing else in this class
baseDir == None

(* ------------------- the logging modules (collaborators) --------------- *)

\* LoggingModules.items(): the candidate modules, in iteration order
LoggingModules == << "json", "maec11" >>

\* the attributes of each module class that are methods
ModuleMethods ==
    [ json   |-> EventNames \ { "log_peepdf" },
      maec11 |-> { "add_behavior_warn", "add_code_snippet", "log_file", "export",
                   "log_connection", "log_exploit_event", "log_warning",
                   "log_certificate", "log_virustotal", "log_androguard",
                   "log_peepdf" } ]

\* the attributes of each module class that exist and are falsy (set to None)
ModuleFalsyAttrs ==
    [ json   |-> { "log_peepdf" },
      maec11 |-> { "log_event" } ]

\* the 'formats' attribute of each module (absent: the empty tuple)
ModuleFormats ==
    [ json   |-> { "json" },
      maec11 |-> { "maec11" } ]

(* ------------------------------ state ---------------------------------- *)

VARIABLES
    config,         \* logging.conf: the names of the modules it enables
    modules,        \* self.modules: the enabled modules, in insertion order
    formats,        \* self.formats
    methods_cache,  \* self.methods_cache: event name -> sequence of handlers
    fs_dirs,        \* the directories that exist
    fs_files,       \* the files that exist: <<dirname, filename>> -> content
    flags_defaults, \* the dicts made once for 'flags = {}': method name -> dict
    call,           \* the last call: its method and arguments
    trace,          \* what the last call did, in order
    ret,            \* what the last call returned
    outcome,        \* "return", "raise" (an exception left the call) or "running"
    pc,             \* "idle", or "scan" inside log_redirect's while loop
    final,          \* log_redirect's local 'final'
    passes,         \* passes of the while loop made by the running log_redirect
    nops            \* calls made in this session

vars == << config, modules, formats, methods_cache, fs_dirs, fs_files, flags_defaults,
           call, trace, ret, outcome, pc, final, passes, nops >>

(* --------------------------- __init_config ----------------------------- *)

\* __init_config without the test of check_module: every module is registered
RegisterEvery(candidates, enabled) == candidates

RECURSIVE RegisterModules(_, _)
\* for name, module in LoggingModules.items(): if check_module: modules[name] = ...
RegisterModules(candidates, enabled) ==
    IF candidates = << >> THEN << >>
    ELSE (IF Head(candidates) \in enabled THEN << Head(candidates) >> ELSE << >>)
         \o RegisterModules(Tail(candidates), enabled)

\* for m in modules.values(): for format in getattr(m, 'formats', ()): formats.add
CollectFormats(mods) ==
    UNION { ModuleFormats[mods[i]] : i \in 1..Len(mods) }

(* --------------------------- resolve_method ---------------------------- *)

\* getattr(module, name, None): the bound method << module, name >>, the falsy
\* value << module >> of an attribute that is no method, or the default << >>
getattr(module, name) ==
    IF name \in ModuleMethods[module] THEN << module, name >>
    ELSE IF name \in ModuleFalsyAttrs[module] THEN << module >>
    ELSE << >>

\* 'if m:' -- of the values getattr gives, the bound methods are the truthy ones
truthy(m) == Len(m) = 2

RECURSIVE ScanModulesReversed(_, _)
\* ScanModules with methods.insert(0, m) for methods.append(m)
ScanModulesReversed(mods, name) ==
    IF mods = << >> THEN << >>
    ELSE LET m == getattr(Head(mods), name)
         IN  ScanModulesReversed(Tail(mods), name)
             \o (IF truthy(m) THEN << m >> ELSE << >>)

RECURSIVE ScanModules(_, _)
\* for module in self.modules.values(): m = getattr(...); if m: methods.append(m)
ScanModules(mods, name) ==
    IF mods = << >> THEN << >>
    ELSE LET m == getattr(Head(mods), name)
         IN  (IF truthy(m) THEN << m >> ELSE << >>) \o ScanModules(Tail(mods), name)

\* self.methods_cache[name] = methods
CacheStore(cache, name, methods) ==
    [ n \in (DOMAIN cache) \cup { name } |-> IF n = name THEN methods ELSE cache[n] ]

\* resolve_method without its first two lines: it scans the modules on every
\* call
resolve_method_rescanning(cache, mods, name) ==
    [ methods |-> ScanModules(mods, name),
      cache   |-> CacheStore(cache, name, ScanModules(mods, name)),
      path    |-> "scanned" ]

\* resolve_method(name): the handlers returned, the cache left behind, and
\* which return statement was reached ("cached": the first one)
resolve_method(cache, mods, name) ==
    IF name \in DOMAIN cache
    THEN [ methods |-> cache[name], cache |-> cache, path |-> "cached" ]
    ELSE LET methods == ScanModules(mods, name)
         IN  [ methods |-> methods, cache |-> CacheStore(cache, name, methods),
               path |-> "scanned" ]

(* ------------------ the effects of a call, in order -------------------- *)

\* one thing a call did
Effect(kind, mod, name, args) ==
    [ kind |-> kind, mod |-> mod, name |-> name, args |-> args ]

\* the running call: the cache and the file system as it leaves them, what it
\* did so far, the handler invocations it made so far, which of its handler
\* invocations raises (0: none does), and whether an exception is propagating
\* (then nothing more of the call runs)
Start(cache, fail) ==
    [ cache |-> cache, dirs |-> fs_dirs, files |-> fs_files, trace |-> << >>,
      ncalls |-> 0, fail |-> fail, raised |-> FALSE,
      defaults |-> flags_defaults, tamper |-> FALSE, obj |-> None,
      result |-> [ kind |-> "unset" ] ]

\* the running call when its handlers change the dicts they are given
Tampering(st, tamper) == [ st EXCEPT !.tamper = tamper ]

\* a dict: a function of its keys
EmptyDict == << >>

\* a dict after a handler that changes what it is given has had it:
\* d["tampered"] = "yes"
Tampered(d) ==
    [ k \in (DOMAIN d) \cup { "tampered" } |-> IF k = "tampered" THEN "yes" ELSE d[k] ]

\* an argument that is the caller's object itself: what the receiver does to
\* it is done to the caller's object
ByReference(x) == [ obj |-> x, shared |-> TRUE ]

\* copy.deepcopy replaced by the object itself
deepcopy_aliasing(x) == [ obj |-> x, shared |-> TRUE ]

\* copy.deepcopy(x): an argument that is a new object equal to x
deepcopy(x) == [ obj |-> x, shared |-> FALSE ]

\* a statement that calls a collaborator or the process log
Do(st, kind, args) ==
    IF st.raised THEN st
    ELSE [ st EXCEPT !.trace = Append(@, Effect(kind, "", "", args)) ]

\* for m in methods: m(args) -- how many of the handlers get called: an
\* exception raised by a handler is caught nowhere and ends the loop
Invoked(st, methods) ==
    IF st.fail > st.ncalls /\ st.fail <= st.ncalls + Len(methods)
    THEN st.fail - st.ncalls
    ELSE Len(methods)

\* for m in self.resolve_method(name): m(args)
\* (the effects: the resolution, each handler called, and the exception when
\* the last handler called raises)
Broadcast(st, mods, name, args) ==
    IF st.raised THEN st
    ELSE LET r      == resolve_method(st.cache, mods, name)
             n      == Invoked(st, r.methods)
             raises == n > 0 /\ st.fail = st.ncalls + n
         IN  [ st EXCEPT
                 !.cache  = r.cache,
                 !.trace  = @ \o << Effect("resolve", r.path, name, r.methods) >>
                              \o [ i \in 1..n |->
                                     Effect("call", r.methods[i][1], r.methods[i][2],
                                            args) ]
                              \o (IF raises
                                  THEN << Effect("raise", r.methods[n][1],
                                                 r.methods[n][2], args) >>
                                  ELSE << >>),
                 !.ncalls = @ + n,
                 !.raised = raises ]

\* for m in self.resolve_method(name): m(before..., arg, after...) where arg is
\* a dict, the caller's own or a copy made for each handler: each handler gets
\* the dict as the handlers before it left it; st.obj is the caller's dict
\* after the loop
BroadcastObj(st, mods, name, before, arg, after) ==
    IF st.raised THEN st
    ELSE LET r      == resolve_method(st.cache, mods, name)
             n      == Invoked(st, r.methods)
             raises == n > 0 /\ st.fail = st.ncalls + n
             changes == arg.shared /\ st.tamper
             given(i) == IF changes /\ i > 1 THEN Tampered(arg.obj) ELSE arg.obj
         IN  [ st EXCEPT
                 !.cache  = r.cache,
                 !.trace  = @ \o << Effect("resolve", r.path, name, r.methods) >>
                              \o [ i \in 1..n |->
                                     Effect("call", r.methods[i][1], r.methods[i][2],
                                            before \o << given(i) >> \o after) ]
                              \o (IF raises
                                  THEN << Effect("raise", r.methods[n][1],
                                                 r.methods[n][2],
                                                 before \o << given(n) >> \o after) >>
                                  ELSE << >>),
                 !.ncalls = @ + n,
                 !.raised = raises,
                 !.obj    = IF changes /\ n > 0 THEN Tampered(arg.obj) ELSE arg.obj ]

(* ------------------------------- Init ---------------------------------- *)

NoCall == [ op |-> "none" ]
RetNone == [ kind |-> "none" ]
RetValue(kind, val) == [ kind |-> kind, val |-> val ]

Init ==
    /\ \E enabled \in SUBSET { LoggingModules[i] : i \in 1..Len(LoggingModules) } :
           /\ config = enabled
           /\ modules = RegisterModules(LoggingModules, enabled)
           /\ formats = CollectFormats(RegisterModules(LoggingModules, enabled))
    /\ methods_cache = << >>
    /\ fs_dirs = {}
    /\ fs_files = << >>
    /\ flags_defaults = [ log_connection |-> EmptyDict, log_location |-> EmptyDict ]
    /\ call = NoCall
    /\ trace = << >>
    /\ ret = RetNone
    /\ outcome = "return"
    /\ pc = "idle"
    /\ final = None
    /\ passes = 0
    /\ nops = 0

\* the handler invocations of a call that may raise, given the call as it
\* runs when none does; 0: none raises
FailPoints(st) == 0..st.ncalls

\* a call may start: the caller has taken the last call's result
Ready == pc = "idle" /\ call = NoCall /\ nops < MaxOps

\* a call that is not log_redirect leaves no scan behind
NoScan == final' = None /\ passes' = 0

\* the call c ends in state st, returning r unless an exception propagates
Finish(c, st, r) ==
    /\ call' = c
    /\ methods_cache' = st.cache
    /\ fs_dirs' = st.dirs
    /\ fs_files' = st.files
    /\ flags_defaults' = st.defaults
    /\ trace' = st.trace
    /\ outcome' = IF st.raised THEN "raise" ELSE "return"
    /\ ret' = IF st.raised THEN RetNone
              ELSE IF st.result.kind # "unset" THEN st.result
              ELSE r
    /\ pc' = "idle"
    /\ nops' = nops + 1
    /\ UNCHANGED << config, modules, formats >>

\* a call c of the operation run(fail) -- run(0) when no handler raises -- with
\* each choice of the handler invocation that raises; it returns r
Complete(c, run(_), r) ==
    \E ok \in { run(0) } :
      \E fail \in FailPoints(ok) :
        \E st \in { IF fail = 0 THEN ok ELSE run(fail) } : Finish(c, st, r)

(* ------------------------------ actions -------------------------------- *)

\* the names an outside caller asks resolve_method for: names the event
\* operations ask for too, and one no module has
ResolveNames == { "set_url", "log_file", "log_event", "log_peepdf", "no_such_event" }

\* resolve_method(name), called from outside
ResolveMethod ==
    /\ Ready
    /\ \E name \in ResolveNames :
         LET r == resolve_method(methods_cache, modules, name)
         IN  Finish([ op |-> "resolve_method", name |-> name ],
                    [ Start(r.cache, 0) EXCEPT
                        !.trace = << Effect("resolve", r.path, name, r.methods) >> ],
                    RetValue("methods", r.methods))
    /\ NoScan

\* set_url(url)
set_url(st, url) == Broadcast(st, modules, "set_url", << url >>)

SetUrl ==
    /\ Ready
    /\ Complete([ op |-> "set_url" ],
                LAMBDA fail : set_url(Start(methods_cache, fail), "url"), RetNone)
    /\ NoScan

\* add_behavior_warn(description, cve, method = "Dynamic Analysis")
add_behavior_warn(st, description, cve, method) ==
    Do(Broadcast(st, modules, "add_behavior_warn", << description, cve, method >>),
       "log.warning", << description >>)

AddBehaviorWarn ==
    /\ Ready
    /\ Complete([ op |-> "add_behavior_warn" ],
                LAMBDA fail : add_behavior_warn(Start(methods_cache, fail),
                                  << "description" >>, None, "Dynamic Analysis"),
                RetNone)
    /\ NoScan

\* the snippets tried: strings of 0..MaxSnippetLen characters
Snippets == UNION { [ 1..n -> { "x" } ] : n \in 0..MaxSnippetLen }

\* check_snippet(s)
check_snippet(s) == Len(s) < eval_min_length_logging

\* add_code_snippet(snippet, language, relationship, method, check)
add_code_snippet(st, snippet, language, relationship, method, check) ==
    IF check /\ check_snippet(snippet) THEN st
    ELSE Broadcast(st, modules, "add_code_snippet",
                   << snippet, language, relationship, method >>)

AddCodeSnippet ==
    /\ Ready
    /\ \E snippet \in Snippets, check \in BOOLEAN :
         Complete([ op |-> "add_code_snippet", snippet |-> snippet, check |-> check ],
                  LAMBDA fail : add_code_snippet(Start(methods_cache, fail), snippet,
                                    "Javascript", "eval argument", "Dynamic Analysis",
                                    check),
                  RetNone)
    /\ NoScan

\* a Sample: its format tag, its MD5 and its raw payload ("absent": no 'raw' key)
Sample(type, md5, raw) == [ type |-> type, md5 |-> md5, raw |-> raw ]

\* what build_sample returns when it builds no Sample
NoSample == Sample(None, None, "absent")

\* the Samples build_sample returns, and the ones the analysis modules report on
Samples ==
    { Sample("JAR", "md5-jar", "absent"),
      Sample("PDF", "md5-pdf", "absent"),
      Sample("APK", "md5-apk", "raw-apk") }

\* __log_file(sample, data, url, params)
log_file_(st, sample, data, url, params) ==
    IF st.raised THEN st
    ELSE
    LET st1 == BroadcastObj(st, modules, "log_file", << >>, deepcopy(sample),
                            << url, params >>)
        own == st1.obj
        st2 == Do(st1, "VirusTotal.analyze", << data, own, baseDir >>)
        st3 == IF own.type \in { "JAR" }
               THEN Do(st2, "HoneyAgent.analyze", << data, own, baseDir, params >>)
               ELSE st2
        st4 == Do(st3, "SampleClassifier.classify", << data, own.md5 >>)
    IN  IF st4.raised THEN st4 ELSE [ st4 EXCEPT !.result = RetValue("sample", own) ]

\* log_file without the test 'if sample is None: return None'
log_file_unguarded(st, sample, data, url, params) ==
    log_file_(st, sample, data, url, params)

\* log_file(data, url, params), with what build_sample(data, url) returned:
\* the state the call ends in
log_file(st, sample, data, url, params) ==
    IF sample = NoSample THEN st
    ELSE log_file_(st, sample, data, url, params)

LogFile ==
    /\ Ready
    /\ \E sample \in Samples \cup { NoSample }, tamper \in BOOLEAN :
         Complete([ op |-> "log_file", sample |-> sample, tamper |-> tamper ],
                  LAMBDA fail : log_file(Tampering(Start(methods_cache, fail), tamper),
                                         sample, "data", "url", None),
                  RetNone)
    /\ NoScan

\* log_event(), with the value of log.ThugOpts.file_logging it reads
log_event(st, file_logging) ==
    LET st1 == Broadcast(st, modules, "export", << baseDir >>)
        st2 == Broadcast(st1, modules, "log_event", << baseDir >>)
    IN  IF file_logging
        THEN Do(st2, "log.warning", << << "Thug analysis logs saved at ", baseDir >> >>)
        ELSE st2

LogEvent ==
    /\ Ready
    /\ \E file_logging \in BOOLEAN :
         Complete([ op |-> "log_event", file_logging |-> file_logging ],
                  LAMBDA fail : log_event(Start(methods_cache, fail), file_logging),
                  RetNone)
    /\ NoScan

\* the flags a caller passes, or "default" when it passes none
FlagsArgs == { "default", "exploit" }

\* the dict a caller passes for flags
FlagsValue(flags) == [ k \in { flags } |-> "True" ]

\* the dict that flags is bound to in a call of the method: the caller's, or
\* the one made for 'flags = {}' when the method was defined
FlagsGiven(st, method, flags) ==
    IF flags = "default" THEN st.defaults[method] ELSE FlagsValue(flags)

\* the running call once the handlers of the method have had the flags
FlagsLeft(st, method, flags) ==
    IF flags = "default"
    THEN [ st EXCEPT !.defaults = [ @ EXCEPT ![method] = st.obj ] ]
    ELSE st

\* log_connection(source, destination, method, flags = {})
log_connection(st, source, destination, method, flags) ==
    IF st.raised THEN st
    ELSE FlagsLeft(BroadcastObj(st, modules, "log_connection",
                                << source, destination, method >>,
                                ByReference(FlagsGiven(st, "log_connection", flags)),
                                << >>),
                   "log_connection", flags)

LogConnection ==
    /\ Ready
    /\ \E flags \in FlagsArgs, tamper \in BOOLEAN :
         Complete([ op |-> "log_connection", flags |-> flags, tamper |-> tamper ],
                  LAMBDA fail : log_connection(Tampering(Start(methods_cache, fail),
                                                         tamper),
                                               "src", "dst", "link", flags),
                  RetNone)
    /\ NoScan

\* log_location(url, data, flags = {})
log_location(st, url, data, flags) ==
    IF st.raised THEN st
    ELSE FlagsLeft(BroadcastObj(st, modules, "log_location", << url, data >>,
                                ByReference(FlagsGiven(st, "log_location", flags)),
                                << >>),
                   "log_location", flags)

LogLocation ==
    /\ Ready
    /\ \E flags \in FlagsArgs, tamper \in BOOLEAN :
         Complete([ op |-> "log_location", flags |-> flags, tamper |-> tamper ],
                  LAMBDA fail : log_location(Tampering(Start(methods_cache, fail),
                                                       tamper),
                                             "url", "data", flags),
                  RetNone)
    /\ NoScan

\* log_exploit_event(url, module, description, cve, data, forward = True)
log_exploit_event(st, url, module, description, cve, data, forward) ==
    LET st1 == IF forward
               THEN add_behavior_warn(st, << "[", module, "] ", description >>, cve,
                                      "Dynamic Analysis")
               ELSE st
    IN  Broadcast(st1, modules, "log_exploit_event",
                  << url, module, description, cve, data >>)

LogExploitEvent ==
    /\ Ready
    /\ \E forward \in BOOLEAN :
         Complete([ op |-> "log_exploit_event", forward |-> forward ],
                  LAMBDA fail : log_exploit_event(Start(methods_cache, fail), "url",
                                    "ActiveX", "overflow", "CVE-1", None, forward),
                  RetNone)
    /\ NoScan

\* log_warning(data)
log_warning(st, data) ==
    Broadcast(Do(st, "log.warning", << data >>), modules, "log_warning", << data >>)

LogWarning ==
    /\ Ready
    /\ Complete([ op |-> "log_warning" ],
                LAMBDA fail : log_warning(Start(methods_cache, fail), "data"), RetNone)
    /\ NoScan

\* a hop of a response's history: h.url, h.status_code, h.headers.get('location')
Hop(url, status_code, location) ==
    [ url |-> url, status_code |-> status_code, location |-> location ]

\* the hops tried
Hops ==
    { Hop("A", "301", "B"), Hop("B", "302", "C"), Hop("", "302", None),
      Hop(None, "302", "C") }

\* the response objects tried; 'not response' holds of NoResponse only
NoResponse == [ present |-> FALSE, url |-> None, history |-> << >> ]

Responses ==
    { NoResponse }
    \cup [ present : { TRUE }, url : { None, "", "C" },
           history : UNION { [ 1..n -> Hops ] : n \in 0..MaxHops } ]

\* Python's truth value of a URL: None and "" are falsy
Truthy(url) == url # None /\ url # ""

RECURSIVE ScanHops(_, _, _)
\* for h in reversed(response.history): final = h.url
\* (i: the hops not yet visited are history[1..i])
ScanHops(history, i, f) ==
    IF i = 0 THEN f ELSE ScanHops(history, i - 1, history[i].url)

\* the body of 'for h in response.history'
redirect_hop(st, h) ==
    LET location == h.location
        st1 == add_behavior_warn(st,
                   << "[HTTP Redirection (Status: ", h.status_code,
                      ")] Content-Location: ", h.url, " --> Location: ", location >>,
                   None, "Dynamic Analysis")
        st2 == log_connection(st1, h.url, location, "http-redirect", "default")
        st3 == Do(st2, "URLClassifier.classify", << h.url >>)
    IN  Do(st3, "HTTPSession.fetch_ssl_certificate", << h.url >>)

RECURSIVE redirect_hops(_, _, _)
\* for h in response.history: ... (i: the next hop)
redirect_hops(st, history, i) ==
    IF i > Len(history) THEN st
    ELSE redirect_hops(redirect_hop(st, history[i]), history, i + 1)

\* log_redirect from 'for h in response.history' to its end
redirect_walk(st, response, f) ==
    Do(Do(redirect_hops(st, response.history, 1), "URLClassifier.classify", << f >>),
       "HTTPSession.fetch_ssl_certificate", << f >>)

\* redirect_no_history without the test 'if response.url:'
redirect_no_history_unguarded(st, response) ==
    Do(Do(st, "URLClassifier.classify", << response.url >>),
       "HTTPSession.fetch_ssl_certificate", << response.url >>)

\* log_redirect when response.history is empty
redirect_no_history(st, response) ==
    IF Truthy(response.url)
    THEN Do(Do(st, "URLClassifier.classify", << response.url >>),
            "HTTPSession.fetch_ssl_certificate", << response.url >>)
    ELSE st

\* log_redirect(response) up to the test of 'while final is None': it returns
\* None, or walks the hops and returns final, or enters the loop
LogRedirect ==
    /\ Ready
    /\ \E response \in Responses, tamper \in BOOLEAN :
         LET c == [ op |-> "log_redirect", response |-> response, tamper |-> tamper ]
         IN  IF ~response.present
             THEN Complete(c, LAMBDA fail : Start(methods_cache, fail), RetNone) /\ NoScan
             ELSE IF response.history = << >>
             THEN /\ Complete(c, LAMBDA fail : redirect_no_history(
                                     Start(methods_cache, fail), response),
                              RetNone)
                  /\ NoScan
             ELSE IF response.url # None
             THEN /\ Complete(c, LAMBDA fail : redirect_walk(
                                     Tampering(Start(methods_cache, fail), tamper),
                                     response, response.url),
                              RetValue("url", response.url))
                  /\ final' = response.url
                  /\ passes' = 0
             ELSE /\ call' = c
                  /\ pc' = "scan"
                  /\ final' = None
                  /\ passes' = 0
                  /\ trace' = << >>
                  /\ ret' = RetNone
                  /\ outcome' = "running"
                  /\ UNCHANGED << config, modules, formats, methods_cache, flags_defaults,
                                  fs_dirs, fs_files, nops >>

\* passes of the loop counted so far, after one more
CountPass(n) == IF n < MaxPasses THEN n + 1 ELSE n

\* one pass of 'while final is None: for h in reversed(response.history): ...',
\* and the rest of log_redirect when the pass ends the loop
ScanPass ==
    /\ pc = "scan"
    /\ LET response == call.response
           f == ScanHops(response.history, Len(response.history), final)
       IN  /\ final' = f
           /\ passes' = CountPass(passes)
           /\ IF f # None
              THEN Complete(call, LAMBDA fail : redirect_walk(
                                      Tampering(Start(methods_cache, fail), call.tamper),
                                      response, f),
                            RetValue("url", f))
              ELSE UNCHANGED << config, modules, formats, methods_cache, flags_defaults, fs_dirs,
                                fs_files, call, trace, ret, outcome, pc, nops >>

\* log_href_redirect(referer, url)
log_href_redirect(st, referer, url) ==
    log_connection(
        add_behavior_warn(st,
            << "[HREF Redirection (document.location)] Content-Location: ", referer,
               " --> Location: ", url >>, None, "Dynamic Analysis"),
        referer, url, "href", "default")

LogHrefRedirect ==
    /\ Ready
    /\ \E tamper \in BOOLEAN :
         Complete([ op |-> "log_href_redirect", tamper |-> tamper ],
                  LAMBDA fail : log_href_redirect(Tampering(Start(methods_cache, fail),
                                                            tamper),
                                                  "A", "B"),
                  RetNone)
    /\ NoScan

\* log_certificate(url, certificate)
log_certificate(st, url, certificate) ==
    Broadcast(add_behavior_warn(st, << "[Certificate]\n ", certificate >>, None,
                                "Dynamic Analysis"),
              modules, "log_certificate", << url, certificate >>)

LogCertificate ==
    /\ Ready
    /\ Complete([ op |-> "log_certificate" ],
                LAMBDA fail : log_certificate(Start(methods_cache, fail), "url", "cert"),
                RetNone)
    /\ NoScan

\* what os.makedirs meets when the directory does not exist yet: nothing, or a
\* fault that is not "already exists"
OSErrors == { "none", "EACCES" }

\* os.makedirs(dirname): the errno of the OSError it raises, "none" when it
\* creates the directory
makedirs(dirs, dirname, oserr) ==
    IF dirname \in dirs THEN "EEXIST" ELSE oserr

\* os.path.join(dirname, filename)
join(dirname, filename) == << dirname, filename >>

\* a write that leaves a file that exists as it is
write_keeping(files, fname, content) ==
    [ f \in (DOMAIN files) \cup { fname } |->
        IF f \in DOMAIN files THEN files[f] ELSE content ]

\* with open(fname, 'wb') as fd: fd.write(content)
write(files, fname, content) ==
    [ f \in (DOMAIN files) \cup { fname } |-> IF f = fname THEN content ELSE files[f] ]

\* store_content without 'if e.errno == errno.EEXIST: pass': every OSError of
\* os.makedirs is raised again
store_content_reraising(st, file_logging, dirname, filename, content, oserr) ==
    IF st.raised \/ ~file_logging THEN st
    ELSE LET errno == makedirs(st.dirs, dirname, oserr)
             st1   == Do(st, "os.makedirs", << dirname, errno >>)
         IN  IF errno # "none"
             THEN [ Do(st1, "OSError", << errno >>) EXCEPT !.raised = TRUE ]
             ELSE [ Do(st1, "write", << join(dirname, filename), content >>) EXCEPT
                      !.dirs  = @ \cup { dirname },
                      !.files = write(@, join(dirname, filename), content) ]

\* store_content(dirname, filename, content), with the value of
\* log.ThugOpts.file_logging it reads: the state the call ends in
store_content(st, file_logging, dirname, filename, content, oserr) ==
    IF st.raised \/ ~file_logging THEN st
    ELSE LET errno == makedirs(st.dirs, dirname, oserr)
             st1   == Do(st, "os.makedirs", << dirname, errno >>)
         IN  IF errno \notin { "none", "EEXIST" }
             THEN [ Do(st1, "OSError", << errno >>) EXCEPT !.raised = TRUE ]
             ELSE [ Do(st1, "write", << join(dirname, filename), content >>) EXCEPT
                      !.dirs  = @ \cup { dirname },
                      !.files = write(@, join(dirname, filename), content) ]

\* store_content(dirname, filename, content): what it returns
store_content_return(file_logging, dirname, filename) ==
    IF ~file_logging THEN RetNone ELSE RetValue("path", join(dirname, filename))

\* the file name an outside caller of store_content passes
PageName == << "page", ".", "html" >>

StoreContent ==
    /\ Ready
    /\ \E file_logging \in BOOLEAN, content \in { "c1", "c2" }, oserr \in OSErrors :
         Complete([ op |-> "store_content", file_logging |-> file_logging,
                    dirname |-> "dir", filename |-> PageName, content |-> content ],
                  LAMBDA fail : store_content(Start(methods_cache, fail), file_logging,
                                              "dir", PageName, content, oserr),
                  store_content_return(file_logging, "dir", PageName))
    /\ NoScan

\* "log_%s" % (module, )
log_method(module) ==
    CASE module = "virustotal" -> "log_virustotal"
      [] module = "honeyagent" -> "log_honeyagent"
      [] module = "androguard" -> "log_androguard"
      [] module = "peepdf"     -> "log_peepdf"

\* log_analysis_module with the handlers invoked before the report is stored
log_analysis_late(st, file_logging, dirname, sample, report, module, format, oserr) ==
    store_content(BroadcastObj(st, modules, log_method(module), << >>,
                               ByReference(sample), << report >>),
                  file_logging, dirname, << sample.md5, ".", format >>, report, oserr)

\* log_analysis_module(dirname, sample, report, module, format = "json")
log_analysis_module(st, file_logging, dirname, sample, report, module, format, oserr) ==
    BroadcastObj(store_content(st, file_logging, dirname,
                               << sample.md5, ".", format >>, report, oserr),
                 modules, log_method(module), << >>, ByReference(sample), << report >>)

\* log_virustotal(dirname, sample, report)
log_virustotal(st, file_logging, dirname, sample, report, oserr) ==
    log_analysis_module(st, file_logging, dirname, sample, report, "virustotal", "json",
                        oserr)

\* log_honeyagent(dirname, sample, report)
log_honeyagent(st, file_logging, dirname, sample, report, oserr) ==
    log_analysis_module(st, file_logging, dirname, sample, report, "honeyagent", "json",
                        oserr)

\* sample.pop("raw", None): what it returns
pop_raw(sample) == IF sample.raw = "absent" THEN None ELSE sample.raw

\* sample.pop("raw", None): the sample it leaves
popped_raw(sample) == [ sample EXCEPT !.raw = "absent" ]

\* log_androguard(dirname, sample, report)
log_androguard(st, file_logging, dirname, sample, report, oserr) ==
    LET st1 == log_file_(st, popped_raw(sample), pop_raw(sample), None, None)
    IN  log_analysis_module([ st1 EXCEPT !.result = [ kind |-> "unset" ] ],
                            file_logging, dirname,
                            st1.obj,
                            report, "androguard", "txt", oserr)

\* log_peepdf(dirname, sample, report)
log_peepdf(st, file_logging, dirname, sample, report, oserr) ==
    log_analysis_module(st, file_logging, dirname, sample, report, "peepdf", "xml", oserr)

\* the call log_<module>(dirname, sample, report)
AnalysisCall(module, file_logging, sample, tamper) ==
    [ op |-> log_method(module), file_logging |-> file_logging, dirname |-> "dir",
      sample |-> sample, report |-> "report", tamper |-> tamper ]

LogVirustotal ==
    /\ Ready
    /\ \E file_logging \in BOOLEAN, sample \in Samples, oserr \in OSErrors,
          tamper \in BOOLEAN :
         Complete(AnalysisCall("virustotal", file_logging, sample, tamper),
                  LAMBDA fail : log_virustotal(Tampering(Start(methods_cache, fail), tamper),
                                    file_logging, "dir", sample, "report", oserr),
                  RetNone)
    /\ NoScan

LogHoneyagent ==
    /\ Ready
    /\ \E file_logging \in BOOLEAN, sample \in Samples, oserr \in OSErrors,
          tamper \in BOOLEAN :
         Complete(AnalysisCall("honeyagent", file_logging, sample, tamper),
                  LAMBDA fail : log_honeyagent(Tampering(Start(methods_cache, fail), tamper),
                                    file_logging, "dir", sample, "report", oserr),
                  RetNone)
    /\ NoScan

LogAndroguard ==
    /\ Ready
    /\ \E file_logging \in BOOLEAN, sample \in Samples, oserr \in OSErrors,
          tamper \in BOOLEAN :
         Complete(AnalysisCall("androguard", file_logging, sample, tamper),
                  LAMBDA fail : log_androguard(Tampering(Start(methods_cache, fail), tamper),
                                    file_logging, "dir", sample, "report", oserr),
                  RetNone)
    /\ NoScan

LogPeepdf ==
    /\ Ready
    /\ \E file_logging \in BOOLEAN, sample \in Samples, oserr \in OSErrors,
          tamper \in BOOLEAN :
         Complete(AnalysisCall("peepdf", file_logging, sample, tamper),
                  LAMBDA fail : log_peepdf(Tampering(Start(methods_cache, fail), tamper),
                                    file_logging, "dir", sample, "report", oserr),
                  RetNone)
    /\ NoScan

\* the caller takes the result of the call that ended (or catches what it
\* raised); call, trace, ret and outcome are the record of one call only
Return ==
    /\ pc = "idle"
    /\ call # NoCall
    /\ call' = NoCall
    /\ trace' = << >>
    /\ ret' = RetNone
    /\ outcome' = "return"
    /\ NoScan
    /\ UNCHANGED << config, modules, formats, methods_cache, fs_dirs, fs_files,
                    flags_defaults, pc, nops >>

(* --------------------------- specifications ---------------------------- *)

\* a session of calls of every operation but log_redirect
Next ==
    \/ ResolveMethod
    \/ SetUrl
    \/ AddBehaviorWarn
    \/ AddCodeSnippet
    \/ LogFile
    \/ LogEvent
    \/ LogConnection
    \/ LogLocation
    \/ LogExploitEvent
    \/ LogWarning
    \/ LogHrefRedirect
    \/ LogCertificate
    \/ StoreContent
    \/ LogVirustotal
    \/ LogHoneyagent
    \/ LogAndroguard
    \/ LogPeepdf
    \/ Return

Spec == Init /\ [][Next]_vars

\* a session of calls of log_redirect and of the two operations it calls, which
\* share its entries of the method cache
NextRedirect ==
    \/ LogRedirect
    \/ ScanPass
    \/ AddBehaviorWarn
    \/ LogConnection
    \/ Return

SpecRedirect == Init /\ [][NextRedirect]_vars

(* ------------------------------- claims -------------------------------- *)

\* the modules registered in this session
Registered == { modules[i] : i \in 1..Len(modules) }

\* the place of a registered module in the registration order
Position(m) == CHOOSE i \in 1..Len(modules) : modules[i] = m

\* methods is exactly the handlers of the registered modules that implement
\* name, in registration order
ExactHandlers(methods, name) ==
    /\ \A j \in 1..Len(methods) :
         /\ methods[j][2] = name
         /\ methods[j][1] \in Registered
         /\ name \in ModuleMethods[methods[j][1]]
    /\ \A m \in Registered :
         name \in ModuleMethods[m] => \E j \in 1..Len(methods) : methods[j] = << m, name >>
    /\ \A j, k \in 1..Len(methods) :
         j < k => Position(methods[j][1]) < Position(methods[k][1])

\* a handler raised during the last call
HandlerRaised == \E i \in DOMAIN trace : trace[i].kind = "raise"

\* C1: every call of resolve_method(name), from outside or from an event
\* operation, first or repeated, returns exactly the handlers of the registered
\* modules that implement name, in registration order; so does the cache entry
\* every later call returns.
C1_ResolveExact ==
    /\ \A i \in DOMAIN trace :
         trace[i].kind = "resolve" => ExactHandlers(trace[i].args, trace[i].name)
    /\ call.op = "resolve_method" => ExactHandlers(ret.val, call.name)
    /\ \A n \in DOMAIN methods_cache : ExactHandlers(methods_cache[n], n)

\* C1 witness: the second call of a session gets two handlers from the cache
C1_Witness ==
    /\ nops = 2
    /\ \E i \in DOMAIN trace :
         /\ trace[i].kind = "resolve"
         /\ trace[i].mod = "cached"
         /\ Len(trace[i].args) = 2

\* the event operations that broadcast
BroadcastingOps ==
    { "set_url", "add_behavior_warn", "add_code_snippet", "log_file", "log_event",
      "log_connection", "log_location", "log_exploit_event", "log_warning",
      "log_certificate", "log_virustotal", "log_honeyagent", "log_androguard",
      "log_peepdf" }

\* every handler of every sequence resolved during the last call was invoked
\* in the broadcast of that sequence
AllResolvedInvoked ==
    \A i \in DOMAIN trace :
      trace[i].kind = "resolve" =>
        \A j \in 1..Len(trace[i].args) :
          \E k \in (i + 1)..Len(trace) :
            /\ trace[k].kind = "call"
            /\ << trace[k].mod, trace[k].name >> = trace[i].args[j]
            /\ \A l \in (i + 1)..k : trace[l].kind # "resolve"

\* C2: when a handler fails in a broadcasting event operation, the handlers
\* after it in the resolved sequence are still invoked and no exception leaves
\* the operation.
C2_FaultIsolated ==
    (call.op \in BroadcastingOps /\ HandlerRaised)
        => (AllResolvedInvoked /\ outcome = "return")

\* the last call is log_redirect(response) with a response that is not None
RedirectOf(response) ==
    /\ call.op = "log_redirect"
    /\ call.response = response
    /\ response.present

\* the last call is a log_redirect that ended, of a response with hops
RedirectEnded(response) ==
    /\ RedirectOf(response)
    /\ pc = "idle"
    /\ Len(response.history) >= 1

\* the effects of the last call of the given kind, in order
EffectsOf(kind) == SelectSeq(trace, LAMBDA e : e.kind = kind)

\* the first arguments of the effects of the last call of the given kind
FirstArgs(kind) == [ i \in 1..Len(EffectsOf(kind)) |-> EffectsOf(kind)[i].args[1] ]

\* C3: with N >= 1 hops whose URLs are all empty or undefined, and no final URL
\* from the response's own URL, the scan for the final URL makes at most one
\* pass over the hops.
C3_OnePass ==
    \A response \in Responses :
      ( /\ RedirectOf(response)
        /\ Len(response.history) >= 1
        /\ ~Truthy(response.url)
        /\ \A i \in 1..Len(response.history) : ~Truthy(response.history[i].url) )
      => passes <= 1

\* the most recent hop whose URL is non-empty
MostRecentHop(history) ==
    CHOOSE i \in 1..Len(history) :
      /\ Truthy(history[i].url)
      /\ \A j \in (i + 1)..Len(history) : ~Truthy(history[j].url)

\* C4: with N >= 1 hops and the response's own URL undefined, log_redirect
\* returns the URL of the most recent hop whose URL is non-empty.
C4_MostRecentHop ==
    \A response \in Responses :
      ( /\ RedirectEnded(response)
        /\ outcome = "return"
        /\ response.url = None
        /\ \E i \in 1..Len(response.history) : Truthy(response.history[i].url) )
      => ( /\ ret.kind = "url"
           /\ ret.val = response.history[MostRecentHop(response.history)].url )

\* the behavior warning log_redirect makes of a hop
HopWarning(h) ==
    << "[HTTP Redirection (Status: ", h.status_code, ")] Content-Location: ", h.url,
       " --> Location: ", h.location >>

\* what log_redirect does for one hop, handler invocations left out: the kind
\* and the name of each effect
HopPattern ==
    << << "resolve", "add_behavior_warn" >>, << "log.warning", "" >>,
       << "resolve", "log_connection" >>, << "URLClassifier.classify", "" >>,
       << "HTTPSession.fetch_ssl_certificate", "" >> >>

\* the effects of the last call that are not handler invocations
Skeleton == SelectSeq(trace, LAMBDA e : e.kind \notin { "call", "raise" })

\* the last call walked the hops of the response oldest to newest -- per hop
\* one behavior warning, one connection edge hop URL -> location with method
\* "http-redirect", one classification and one certificate fetch of the hop
\* URL -- then classified url and fetched its certificate, and returned url
WalkedAndReturned(response, url) ==
    LET history == response.history
        N == Len(history)
    IN  /\ outcome = "return"
        /\ ret = RetValue("url", url)
        /\ Len(Skeleton) = Len(HopPattern) * N + 2
        /\ \A k \in 1..(Len(HopPattern) * N) :
             << Skeleton[k].kind, Skeleton[k].name >>
                 = HopPattern[((k - 1) % Len(HopPattern)) + 1]
        /\ FirstArgs("log.warning") = [ i \in 1..N |-> HopWarning(history[i]) ]
        /\ FirstArgs("URLClassifier.classify")
             = [ i \in 1..N |-> history[i].url ] \o << url >>
        /\ FirstArgs("HTTPSession.fetch_ssl_certificate")
             = [ i \in 1..N |-> history[i].url ] \o << url >>
        /\ \A m \in Registered :
             "log_connection" \in ModuleMethods[m] =>
               LET edges == SelectSeq(trace, LAMBDA e : e.kind = "call" /\ e.mod = m
                                                        /\ e.name = "log_connection")
               IN  [ i \in 1..Len(edges) |-> SubSeq(edges[i].args, 1, 3) ]
                     = [ i \in 1..N |-> << history[i].url, history[i].location,
                                           "http-redirect" >> ]
        /\ \A m \in Registered :
             "add_behavior_warn" \in ModuleMethods[m] =>
               LET warns == SelectSeq(trace, LAMBDA e : e.kind = "call" /\ e.mod = m
                                                        /\ e.name = "add_behavior_warn")
               IN  [ i \in 1..Len(warns) |-> warns[i].args[1] ]
                     = [ i \in 1..N |-> HopWarning(history[i]) ]

\* C5: with N >= 1 hops and a defined own URL U, log_redirect returns U, emits
\* N behavior warnings and N connection edges, one of each per hop in hop
\* order, and makes N+1 classification and certificate-fetch pairs: one per
\* hop URL in hop order, then one on U.
C5_WalkHops ==
    \A response \in Responses :
      (RedirectEnded(response) /\ response.url # None)
        => WalkedAndReturned(response, response.url)

\* C5, when no handler raises on the way
C5_WalkHopsNoFault ==
    \A response \in Responses :
      (RedirectEnded(response) /\ response.url # None /\ ~HandlerRaised)
        => WalkedAndReturned(response, response.url)

\* one classification and one certificate fetch, both of url, and nothing else
OnePair(url) ==
    << Effect("URLClassifier.classify", "", "", << url >>),
       Effect("HTTPSession.fetch_ssl_certificate", "", "", << url >>) >>

\* C6, as claimed: with an empty hop history log_redirect returns nothing,
\* makes exactly one classification and one certificate fetch, both of the
\* response's own URL, and emits no behavior warning and no connection edge.
C6_NoHistoryAlwaysOnePair ==
    \A response \in Responses :
      (RedirectOf(response) /\ response.history = << >>)
        => ( /\ outcome = "return"
             /\ ret = RetNone
             /\ trace = OnePair(response.url) )

\* C6, amended: with an empty hop history log_redirect returns nothing and
\* emits no behavior warning and no connection edge; it makes exactly one
\* classification and one certificate fetch, both of the response's own URL,
\* when that URL is non-empty, and none when it is empty or undefined.
C6_NoHistory ==
    \A response \in Responses :
      (RedirectOf(response) /\ response.history = << >>)
        => ( /\ outcome = "return"
             /\ ret = RetNone
             /\ trace = IF Truthy(response.url) THEN OnePair(response.url) ELSE << >> )

\* C6 witness: a log_redirect of a response without hops and with own URL "C"
\* classified "C" and fetched its certificate
C6_Witness ==
    /\ call.op = "log_redirect"
    /\ call.response.present
    /\ call.response.history = << >>
    /\ call.response.url = "C"
    /\ trace = OnePair("C")

\* the handler invocations of the last call for the given event, in order
CallsOf(name) == SelectSeq(trace, LAMBDA e : e.kind = "call" /\ e.name = name)

\* the last call invoked every registered handler of the event, once, in
\* registration order
InvokedAll(name) ==
    [ i \in 1..Len(CallsOf(name)) |-> << CallsOf(name)[i].mod, name >> ]
        = ScanModules(modules, name)

\* C7: when build_sample builds no Sample, log_file returns nothing, invokes no
\* log_file handler, no scan service, no dynamic execution and no content
\* classifier, and leaves the dispatcher state, the method cache included,
\* unchanged.
C7_NoSampleNoEffect ==
    [][ (call = NoCall /\ call'.op = "log_file" /\ call'.sample = NoSample)
          => ( /\ trace' = << >>
               /\ ret' = RetNone
               /\ outcome' = "return"
               /\ UNCHANGED << config, modules, formats, methods_cache, fs_dirs, fs_files,
                               flags_defaults >> )
      ]_vars

\* C7 witness: a log_file that built no Sample, on a dispatcher whose method
\* cache an earlier call has filled
C7_Witness ==
    /\ call.op = "log_file"
    /\ call.sample = NoSample
    /\ DOMAIN methods_cache # { }
    /\ trace = << >>

\* log_file called the scan service once, the dynamic execution once for a
\* "JAR" Sample and never otherwise, both after the broadcast to the log_file
\* handlers, and returned the Sample
ServicesAfterBroadcast(sample) ==
    /\ outcome = "return"
    /\ ret = RetValue("sample", sample)
    /\ Len(SelectSeq(trace, LAMBDA e : e.kind = "resolve" /\ e.name = "log_file")) = 1
    /\ InvokedAll("log_file")
    /\ Len(EffectsOf("VirusTotal.analyze")) = 1
    /\ Len(EffectsOf("HoneyAgent.analyze")) = (IF sample.type = "JAR" THEN 1 ELSE 0)
    /\ \A i, j \in DOMAIN trace :
         ( /\ trace[i].kind \in { "resolve", "call" }
           /\ trace[j].kind \in { "VirusTotal.analyze", "HoneyAgent.analyze" } )
         => i < j

\* C8: in every log_file call that builds a Sample the scan service is called
\* exactly once, the dynamic execution exactly once if and only if the
\* Sample's format tag is "JAR", both after the broadcast to the log_file
\* handlers, and the Sample is returned.
C8_FileServices ==
    (call.op = "log_file" /\ call.sample # NoSample)
      => ServicesAfterBroadcast(call.sample)

\* C8, when no handler raises on the way
C8_FileServicesNoFault ==
    (call.op = "log_file" /\ call.sample # NoSample /\ ~HandlerRaised)
      => ServicesAfterBroadcast(call.sample)

\* add_code_snippet dropped a checked snippet shorter than 4 and invoked every
\* resolved handler otherwise
SnippetFiltered(snippet, check) ==
    IF check /\ Len(snippet) < 4
    THEN CallsOf("add_code_snippet") = << >>
    ELSE InvokedAll("add_code_snippet")

\* C9: add_code_snippet with check=true and a snippet shorter than 4 invokes no
\* add_code_snippet handler; with check=true and length >= 4, or check=false
\* and any length, every resolved add_code_snippet handler is invoked.
C9_SnippetFilter ==
    call.op = "add_code_snippet" => SnippetFiltered(call.snippet, call.check)

\* C9, when no handler raises on the way
C9_SnippetFilterNoFault ==
    (call.op = "add_code_snippet" /\ ~HandlerRaised)
      => SnippetFiltered(call.snippet, call.check)

\* log_exploit_event with forward invoked every add_behavior_warn handler, with
\* the message "[module] description" and the CVE, before any
\* log_exploit_event handler; without forward it invoked no add_behavior_warn
\* handler, wrote no warning and invoked the log_exploit_event handlers
ExploitForwarded(forward) ==
    IF forward
    THEN /\ \A i, j \in DOMAIN trace :
              ( /\ trace[i].kind = "call" /\ trace[i].name = "add_behavior_warn"
                /\ trace[j].kind = "call" /\ trace[j].name = "log_exploit_event" )
              => i < j
         /\ \A i \in DOMAIN trace :
              (trace[i].kind = "call" /\ trace[i].name = "add_behavior_warn")
              => ( /\ trace[i].args[1] = << "[", "ActiveX", "] ", "overflow" >>
                   /\ trace[i].args[2] = "CVE-1" )
    ELSE /\ CallsOf("add_behavior_warn") = << >>
         /\ EffectsOf("log.warning") = << >>
         /\ InvokedAll("log_exploit_event")

\* C10: in log_exploit_event with forward=true every add_behavior_warn handler
\* invocation, with message "[module] description" and the given CVE, comes
\* before any log_exploit_event handler invocation; with forward=false no
\* add_behavior_warn handler is invoked, nothing is written to the warning
\* log, and the log_exploit_event handlers are still invoked.
C10_ExploitForward ==
    call.op = "log_exploit_event" => ExploitForwarded(call.forward)

\* C10, when no handler raises on the way
C10_ExploitForwardNoFault ==
    (call.op = "log_exploit_event" /\ ~HandlerRaised)
      => ExploitForwarded(call.forward)

\* the operations that call add_behavior_warn
WarningOps ==
    { "add_behavior_warn", "log_redirect", "log_href_redirect", "log_certificate",
      "log_exploit_event" }

\* every add_behavior_warn of the last call wrote its description to the
\* warning log once, right after the last of its handlers, and the last call
\* wrote nothing else to the warning log
WarnedAfterBroadcast ==
    /\ \A i \in DOMAIN trace :
         (trace[i].kind = "resolve" /\ trace[i].name = "add_behavior_warn")
         => \E j \in (i + 1)..Len(trace) :
              /\ trace[j].kind = "log.warning"
              /\ \A k \in (i + 1)..(j - 1) :
                   /\ trace[k].kind = "call"
                   /\ trace[k].name = "add_behavior_warn"
                   /\ trace[k].args[1] = trace[j].args[1]
    /\ Len(EffectsOf("log.warning"))
         = Len(SelectSeq(trace, LAMBDA e : e.kind = "resolve"
                                          /\ e.name = "add_behavior_warn"))

\* C11: every call of add_behavior_warn -- direct, or made by log_redirect per
\* hop, by log_href_redirect, by log_certificate or by log_exploit_event with
\* forward -- writes its description to the warning log exactly once, after
\* the broadcast to the add_behavior_warn handlers, however many handlers are
\* resolved and whatever their outcome.
C11_WarnedOnce ==
    call.op \in WarningOps => WarnedAfterBroadcast

\* C11, when no handler raises on the way
C11_WarnedOnceNoFault ==
    (call.op \in WarningOps /\ ~HandlerRaised) => WarnedAfterBroadcast

\* a call is made: the step from the caller's side to the end of the call
CallMade == call = NoCall /\ call' # NoCall

\* C12: in store_content a failure of os.makedirs of kind "already exists" is
\* swallowed and the write proceeds, so that a store_content call on an
\* existing directory succeeds; any other failure of os.makedirs propagates to
\* the caller and the call writes no file.
C12_DirectoryFaults ==
    [][ CallMade =>
          \A i \in DOMAIN trace' :
            trace'[i].kind = "os.makedirs" =>
              IF trace'[i].args[2] = "EEXIST"
              THEN /\ i + 1 \in DOMAIN trace'
                   /\ trace'[i + 1].kind = "write"
                   /\ trace'[i + 1].args[1] \in DOMAIN fs_files'
                   /\ fs_files'[trace'[i + 1].args[1]] = trace'[i + 1].args[2]
                   /\ call'.op = "store_content"
                        => ( /\ outcome' = "return"
                             /\ ret' = RetValue("path", trace'[i + 1].args[1]) )
              ELSE trace'[i].args[2] # "none"
                     => ( /\ outcome' = "raise"
                          /\ fs_files' = fs_files
                          /\ EffectsOf("write")' = << >> )
      ]_vars

\* C12 witness: a store_content call found its directory existing, wrote the
\* file and returned
C12_Witness ==
    /\ call.op = "store_content"
    /\ outcome = "return"
    /\ \E i \in DOMAIN trace :
         /\ trace[i].kind = "os.makedirs"
         /\ trace[i].args[2] = "EEXIST"
    /\ EffectsOf("write") # << >>

\* dirname exists, dirname/filename holds exactly content, and the full path
\* was returned
Stored(dirname, filename, content) ==
    /\ dirname \in fs_dirs
    /\ << dirname, filename >> \in DOMAIN fs_files
    /\ fs_files[<< dirname, filename >>] = content
    /\ ret = RetValue("path", << dirname, filename >>)

\* the last call stored its content and returned the path
StoredByCall == Stored(call.dirname, call.filename, call.content)

\* C13, as claimed: every store_content(dirname, filename, content) call that
\* does not raise ends with dirname existing and dirname/filename holding
\* exactly content, and returns the full path dirname/filename.
C13_StoredWheneverReturned ==
    (call.op = "store_content" /\ outcome = "return")
      => StoredByCall

\* C13, amended: every store_content(dirname, filename, content) call that
\* does not raise, made while file logging is enabled, ends with dirname
\* existing and dirname/filename holding exactly content, and returns the
\* full path; made while file logging is disabled it returns nothing and
\* leaves the file system as it was.
C13_StoredWhenFileLogging ==
    [][ (CallMade /\ call'.op = "store_content" /\ outcome' = "return")
          => IF call'.file_logging
             THEN StoredByCall'
             ELSE /\ ret' = RetNone
                  /\ trace' = << >>
                  /\ UNCHANGED << fs_dirs, fs_files >>
      ]_vars

\* C13 witness: a store_content call with file logging enabled replaced the
\* content of a file that an earlier call had stored
C13_Witness ==
    /\ call.op = "store_content"
    /\ call.file_logging
    /\ outcome = "return"
    /\ call.content = "c2"
    /\ fs_files[<< call.dirname, call.filename >>] = "c2"
    /\ \E i \in DOMAIN trace :
         trace[i].kind = "os.makedirs" /\ trace[i].args[2] = "EEXIST"

\* the modules of the handlers in a sequence of handlers
ModulesOf(methods) == { methods[i][1] : i \in DOMAIN methods }

\* no module that the configuration disables is registered, is in a cached
\* handler sequence, is in a handler sequence the last call resolved or got
\* from resolve_method, or had a handler invoked by the last call
OnlyEnabledModules ==
    /\ Registered \subseteq config
    /\ \A name \in DOMAIN methods_cache : ModulesOf(methods_cache[name]) \subseteq config
    /\ \A i \in DOMAIN trace :
         /\ trace[i].kind = "resolve" => ModulesOf(trace[i].args) \subseteq config
         /\ trace[i].kind = "call" => trace[i].mod \in config
    /\ ret.kind = "methods" => ModulesOf(ret.val) \subseteq config

\* C14: after construction no operation adds, removes or replaces a module in
\* the registered modules or changes the formats; so a module that the
\* configuration disables is in no resolved handler sequence, for any event
\* name, at any point of the session.
C14_ModulesFixed ==
    /\ []OnlyEnabledModules
    /\ [][ modules' = modules /\ formats' = formats /\ config' = config ]_vars

\* C14 witness: with json disabled and maec11 enabled, the second call of the
\* session resolved an event that both implement to maec11's handler alone
C14_Witness ==
    /\ config = { "maec11" }
    /\ nops = 2
    /\ \E i \in DOMAIN trace :
         /\ trace[i].kind = "resolve"
         /\ "json" \in { LoggingModules[k] : k \in DOMAIN LoggingModules }
         /\ trace[i].name \in ModuleMethods["json"]
         /\ trace[i].args = << << "maec11", trace[i].name >> >>

\* C15: once the method cache holds an entry for an event name, every later
\* operation leaves that entry unchanged, and a resolve_method call for a
\* cached name returns the stored sequence without scanning the modules and
\* without changing the cache.
C15_CacheStable ==
    [][ /\ \A name \in DOMAIN methods_cache :
             /\ name \in DOMAIN methods_cache'
             /\ methods_cache'[name] = methods_cache[name]
        /\ \A i \in DOMAIN trace' :
             (CallMade /\ trace'[i].kind = "resolve"
                /\ trace'[i].name \in DOMAIN methods_cache)
             => ( /\ trace'[i].mod = "cached"
                  /\ trace'[i].args = methods_cache[trace'[i].name] )
        /\ (CallMade /\ call'.op = "resolve_method"
               /\ call'.name \in DOMAIN methods_cache)
             => ( /\ ret' = RetValue("methods", methods_cache[call'.name])
                  /\ methods_cache' = methods_cache
                  /\ trace' = << Effect("resolve", "cached", call'.name,
                                         methods_cache[call'.name]) >> )
      ]_vars

\* C15 witness: resolve_method returned, from the cache, the two handlers that
\* an earlier call had resolved for the name
C15_Witness ==
    /\ call.op = "resolve_method"
    /\ ret.kind = "methods"
    /\ Len(ret.val) = 2
    /\ trace = << Effect("resolve", "cached", call.name, ret.val) >>

\* C20: no call that log_redirect makes to the URL classifier or to the
\* certificate fetcher carries an empty or undefined URL, for any response.
C20_NoEmptyUrl ==
    call.op = "log_redirect"
      => \A i \in DOMAIN trace :
           trace[i].kind \in { "URLClassifier.classify",
                               "HTTPSession.fetch_ssl_certificate" }
           => Truthy(trace[i].args[1])

\* C20 for the responses without hops
C20_NoEmptyUrlNoHistory ==
    (call.op = "log_redirect" /\ call.response.history = << >>)
      => \A i \in DOMAIN trace :
           trace[i].kind \in { "URLClassifier.classify",
                               "HTTPSession.fetch_ssl_certificate" }
           => Truthy(trace[i].args[1])

\* the Sample that the log-file step of the last call is about
LoggedSample ==
    IF call.op = "log_androguard" THEN popped_raw(call.sample) ELSE call.sample

\* C16: in the log-file broadcast each log_file handler gets its own copy of
\* the Sample: what a handler does to the Sample it got shows neither in the
\* Sample another handler gets, nor in the Sample passed afterwards to the
\* scan, dynamic-execution and classification collaborators, nor in the
\* Sample returned to the caller.
C16_OwnCopy ==
    ( /\ call.op \in { "log_file", "log_androguard" }
      /\ call.sample # NoSample )
    => /\ \A i \in DOMAIN trace :
            /\ (trace[i].kind \in { "call", "raise" } /\ trace[i].name = "log_file")
                 => trace[i].args[1] = LoggedSample
            /\ trace[i].kind \in { "VirusTotal.analyze", "HoneyAgent.analyze" }
                 => trace[i].args[2] = LoggedSample
            /\ trace[i].kind = "SampleClassifier.classify"
                 => trace[i].args[2] = LoggedSample.md5
       /\ (call.op = "log_file" /\ outcome = "return")
            => ret = RetValue("sample", LoggedSample)

\* C16 witness: log_file returned the Sample after two log_file handlers, each
\* of which changes the Sample it is given, and the scan service had it
C16_Witness ==
    /\ call.op = "log_file"
    /\ call.sample # NoSample
    /\ call.tamper
    /\ Len(CallsOf("log_file")) = 2
    /\ EffectsOf("VirusTotal.analyze") # << >>
    /\ outcome = "return"
    /\ ret.kind = "sample"

\* the flags that the first handler invoked by the last call was given
FirstFlagsGiven ==
    LET calls == CallsOf(call.op)
    IN  calls[1].args[Len(calls[1].args)]

\* C19: every log_connection or log_location call that omits flags delivers an
\* empty flags map to its handlers, whatever earlier calls and their handlers
\* did to the flags map they were given. (Stated of the first handler the
\* call invokes, which no handler of the same call precedes.)
C19_DefaultFlagsEmpty ==
    ( /\ call.op \in { "log_connection", "log_location" }
      /\ call.flags = "default"
      /\ CallsOf(call.op) # << >> )
    => DOMAIN FirstFlagsGiven = { }

\* C19 for the first call of a session
C19_DefaultFlagsEmptyAtFirst ==
    ( /\ call.op \in { "log_connection", "log_location" }
      /\ call.flags = "default"
      /\ CallsOf(call.op) # << >>
      /\ nops = 1 )
    => DOMAIN FirstFlagsGiven = { }

\* the handlers of the last call change the dicts they are given
HandlersTamper == "tamper" \in DOMAIN call /\ call.tamper

\* each broadcast of the last call invoked every handler of the sequence it
\* resolved once, in the order of the sequence, all with the same arguments
\* (compared when the handlers leave their arguments as they got them)
EachBroadcastComplete ==
    \A i \in DOMAIN trace :
      trace[i].kind = "resolve" =>
        LET methods == trace[i].args
            n == Len(methods)
        IN  /\ i + n <= Len(trace)
            /\ \A k \in 1..n :
                 /\ trace[i + k].kind = "call"
                 /\ << trace[i + k].mod, trace[i + k].name >> = methods[k]
                 /\ trace[i + k].name = trace[i].name
                 /\ ~HandlersTamper => trace[i + k].args = trace[i + 1].args
            /\ (i + n + 1) \in DOMAIN trace
                 => trace[i + n + 1].kind # "call"

\* the last call resolved no handler at all; then it invoked none and, unless
\* os.makedirs failed, returned
NoHandlerNoFault ==
    (\A i \in DOMAIN trace : trace[i].kind = "resolve" => trace[i].args = << >>)
    => /\ \A i \in DOMAIN trace : trace[i].kind # "call"
       /\ EffectsOf("OSError") = << >> => outcome \in { "return", "running" }

\* the last call is an event operation: a call of the class that is not a
\* bare resolve_method
EventOperation == call.op \notin { "none", "resolve_method" }

\* C17: each broadcast of an event operation invokes every handler of the
\* sequence resolved for its event name exactly once per call, in the order
\* of the sequence, all with the same arguments; when no registered module
\* implements the event name the operation invokes no handler and completes
\* normally.
C17_BroadcastComplete ==
    EventOperation => (EachBroadcastComplete /\ NoHandlerNoFault)

\* C17, when no handler raises on the way
C17_BroadcastCompleteNoFault ==
    (EventOperation /\ ~HandlerRaised) => (EachBroadcastComplete /\ NoHandlerNoFault)

\* the operations that log the report of an analysis module
AnalysisOps == { "log_virustotal", "log_honeyagent", "log_androguard", "log_peepdf" }

\* the format each of them stores its report in
ReportFormat ==
    [ log_virustotal |-> "json", log_honeyagent |-> "json",
      log_androguard |-> "txt", log_peepdf |-> "xml" ]

\* effect i of the last call is the write of the report of the last call to
\* <sample md5>.<format> in dirname
ReportWritten(i) ==
    /\ trace[i].kind = "write"
    /\ trace[i].args = << << call.dirname,
                             << call.sample.md5, ".", ReportFormat[call.op] >> >>,
                          call.report >>

\* effect i of the last call comes after the whole log-file step on the raw
\* payload of the sample: the broadcast to the log_file handlers and the call
\* of the scan service
AfterLogFileStep(i) ==
    \E a, b \in 1..(i - 1) :
      /\ a < b
      /\ trace[a].kind = "resolve" /\ trace[a].name = "log_file"
      /\ trace[b].kind = "VirusTotal.analyze"
      /\ trace[b].args[1] = pop_raw(call.sample)
      /\ \A k \in DOMAIN trace :
           (trace[k].kind = "call" /\ trace[k].name = "log_file") => (a < k /\ k < b)

====
